---- MODULE Spec2Model ----
(***************************************************************************)
(* CAET lesson progress tracker (lesson-tracker.js, quiz-aware version).   *)
(*                                                                         *)
(* The tracker is one module-wide object, trackerState, mutated by the     *)
(* public API window.CAETTracker, by DOM event handlers and by two         *)
(* setInterval callbacks.  JavaScript runs every handler to completion, so *)
(* each handler is one action.                                             *)
(*                                                                         *)
(* Strings are sequences of one-character strings, so that                 *)
(* toLowerCase().replace(/[^a-z0-9]/g, '') is computed and not assumed.    *)
(* Time is counted in whole seconds since the script was loaded.           *)
(* Numbers are exact rationals <<numerator, denominator>>; the input sets  *)
(* keep every value a double represents closely enough that Math.round     *)
(* gives the same integer.  The timestamp: Date.now() fields of objective, *)
(* quiz and question records and of PROGRESS_UPDATE are written and never  *)
(* read by the tracker; they are left out of the records.                  *)
(***************************************************************************)
EXTENDS Integers, Sequences, FiniteSets, TLC

(***************************************************************************)
(* Bounds of the model.                                                    *)
(***************************************************************************)
\* number of handler runs explored in one session
MaxOps == 3
\* number of calls and events explored in a session without an end
MaxLiveOps == 2

(***************************************************************************)
(* CONFIG (part_000:737-743), in seconds.                                  *)
(***************************************************************************)
minActiveTime == 30
idleTimeout == 60

(***************************************************************************)
(* Input alphabets.                                                        *)
(***************************************************************************)
Null == <<"null">>

OhmsLawA == <<"O", "h", "m", "'", "s", " ", "L", "a", "w">>
OhmsLawB == <<"o", "h", "m", "s", " ", "l", "a", "w">>
SeriesCircuits == <<"S", "C">>
ObjectiveNames == {OhmsLawA, OhmsLawB, SeriesCircuits}
ObjectiveScores == {90, 95}

QuizA == <<"Q", "1">>
QuizB == <<"q", " ", "1">>
constructorKey == <<"c", "o", "n", "s", "t", "r", "u", "c", "t", "o", "r">>
\* properties every object literal inherits from Object.prototype
ObjectPrototypeKeys == {constructorKey}
QuizNames == {QuizA, QuizB, constructorKey}
\* <<score, maxScore, totalQuestions>>; totalQuestions 0 stands for the default
\* null, which is falsy as 0 is
QuizInputs == {<<60, 100, 0>>, <<40, 100, 0>>, <<8, 10, 10>>, <<-100, 100, 0>>}

QuestionIds == {<<"q", "1">>, <<"q", "2">>, constructorKey}
TopicNames == {<<"d", "c">>}
TopicInputs == {-20, 85, 150}
LessonIds == {<<"7">>}
\* what the page gives detectLessonId: <meta name="lesson-id"> content, the
\* ?lesson= parameter, <body data-lesson-id>; Null when the page has none
MetaContents == {Null, <<"1">>}
UrlLessons == {Null, <<"2">>}
BodyLessonIds == {Null, <<>>, <<"3">>}
unknown == <<"u", "n", "k", "n", "o", "w", "n">>
lessonTitle == <<"D", "C">>
\* <<scrollTop, scrollHeight, innerHeight>>
ScrollGeometries == {<<0, 2000, 1000>>, <<500, 2000, 1000>>, <<1100, 2000, 1000>>}
\* seconds between two runs of a timer callback (1 s nominal, 60 s when throttled)
TickGaps == {1, 60}
Hosts == {"parent", "opener", "none"}

(***************************************************************************)
(* String.prototype.toLowerCase and replace(/[^a-z0-9]/g, '').             *)
(***************************************************************************)
LowerAlnum == {"a", "c", "d", "h", "k", "l", "m", "n", "o", "q", "r", "s", "t",
               "u", "w", "0", "1", "2", "3", "7"}

toLowerCase(c) ==
    CASE c = "O" -> "o"
      [] c = "L" -> "l"
      [] c = "S" -> "s"
      [] c = "C" -> "c"
      [] c = "Q" -> "q"
      [] OTHER -> c

IsLowerAlnum(c) == c \in LowerAlnum

normalize(name) ==
    SelectSeq([i \in 1..Len(name) |-> toLowerCase(name[i])], IsLowerAlnum)

(***************************************************************************)
(* Exact arithmetic on <<numerator, denominator>>, denominator > 0.  The   *)
(* operators that combine fractions bind their arguments once (x \in {a}), *)
(* so that an argument that is itself a sum of fractions is computed once  *)
(* wherever the operator is evaluated, inside ENABLED as well.             *)
(***************************************************************************)
RECURSIVE Gcd(_, _)
Gcd(a, b) == IF b = 0 THEN a ELSE Gcd(b, a % b)

Abs(a) == IF a < 0 THEN -a ELSE a

Frac(n, d) ==
    LET g == Gcd(Abs(n), d) IN <<n \div g, d \div g>>

Plus(a, b) ==
    CHOOSE r \in {Frac(x[1] * y[2] + y[1] * x[2], x[2] * y[2]) :
                    x \in {a}, y \in {b}} : TRUE

Times(a, b) ==
    CHOOSE r \in {Frac(x[1] * y[1], x[2] * y[2]) : x \in {a}, y \in {b}} : TRUE

Over(a, n) == CHOOSE r \in {Frac(x[1], x[2] * n) : x \in {a}} : TRUE

Num(n) == <<n, 1>>

Less(a, b) == \E x \in {a}, y \in {b} : x[1] * y[2] < y[1] * x[2]

MathMin(a, b) ==
    CHOOSE r \in {IF Less(y, x) THEN y ELSE x : x \in {a}, y \in {b}} : TRUE

\* Math.round: nearest integer, a tie goes up
MathRound(a) ==
    CHOOSE r \in {(2 * x[1] + x[2]) \div (2 * x[2]) : x \in {a}} : TRUE

RECURSIVE SumSeq(_)
SumSeq(s) == IF s = <<>> THEN 0 ELSE Head(s) + SumSeq(Tail(s))

RECURSIVE SetToSeq(_)
SetToSeq(S) ==
    IF S = {} THEN <<>>
    ELSE LET x == CHOOSE y \in S : TRUE IN <<x>> \o SetToSeq(S \ {x})

(***************************************************************************)
(* State.                                                                  *)
(***************************************************************************)
VARIABLES
    trackerState,   \* the module-wide trackerState object (part_000:746-766)
    now,            \* Date.now(), in seconds since the script was loaded
    initialized,    \* init() has run (immediately, or on DOMContentLoaded)
    host,           \* what window.parent / window.opener give sendToParent
    scrollTimeout,  \* the pending debounce timer of the scroll listener
    snapshot,       \* <<the object the last getState() call returned>>, or <<>>
    sent,           \* what sendToParent did during the last handler run
    lastOp,         \* the last handler run and its arguments
    history,        \* which calls the lesson script has made so far
    opCount,        \* handler runs so far
    sweepAngle,     \* radar-chart.js:11, in steps of 0.02 rad
    animationFrame, \* radar-chart.js:12, 0 for null (handles are not 0)
    frameRequests,  \* callbacks waiting for the next animation frame
    lastHandle      \* the last handle requestAnimationFrame returned

vars == <<trackerState, now, initialized, host, scrollTimeout, snapshot,
          sent, lastOp, history, opCount,
          sweepAngle, animationFrame, frameRequests, lastHandle>>

\* the state of radar-chart.js and of the browser's animation frame queue
radarVars == <<sweepAngle, animationFrame, frameRequests, lastHandle>>

\* radar-chart.js once the script has run (radar-chart.js:11-12)
radarLoaded ==
    /\ sweepAngle = 0
    /\ animationFrame = 0
    /\ frameRequests = {}
    /\ lastHandle = 0

emptyQuestions == [total |-> 0, correct |-> 0, questions |-> <<>>]

\* obj[key] is truthy for an object literal obj: an own property (every stored
\* value is an object), else a function inherited from Object.prototype
Truthy(obj, key) == key \in DOMAIN obj \/ key \in ObjectPrototypeKeys

\* obj[key] = value
Put(obj, key, value) ==
    [k \in DOMAIN obj \cup {key} |-> IF k = key THEN value ELSE obj[k]]

(***************************************************************************)
(* calculateProgress (part_000:954-1031), as a function of the state.      *)
(***************************************************************************)
completedCount(objectives) ==
    Cardinality({i \in 1..Len(objectives) : objectives[i].completed})

\* the objectives term, giving nothing when no objective is defined
objectivesComponentNoneIsZero(ts) ==
    IF Len(ts.objectives) > 0
    THEN Times(Frac(completedCount(ts.objectives), Len(ts.objectives)), Num(15))
    ELSE Num(0)

objectivesComponent(ts) ==
    IF Len(ts.objectives) > 0
    THEN Times(Frac(completedCount(ts.objectives), Len(ts.objectives)), Num(15))
    ELSE Num(15)

\* the quiz/questions component taking the question ledger whenever a question
\* has been answered, and the quiz scores only without one
quizComponentLedgerFirst(ts) ==
    LET names == SetToSeq(DOMAIN ts.quizScores)
        total == SumSeq([i \in 1..Len(names) |-> ts.quizScores[names[i]].percentage])
    IN  IF ts.questionsAnswered.total > 0
        THEN Times(Frac(ts.questionsAnswered.correct, ts.questionsAnswered.total),
                   Num(30))
        ELSE IF names # <<>> THEN Times(Over(Frac(total, Len(names)), 100), Num(30))
        ELSE Num(0)

\* quiz/questions component (part_000:978-992)
quizComponent(ts) ==
    LET hasQuizzes == Cardinality(DOMAIN ts.quizScores) > 0
        hasQuestions == ts.questionsAnswered.total > 0
        names == SetToSeq(DOMAIN ts.quizScores)
        total == SumSeq([i \in 1..Len(names) |-> ts.quizScores[names[i]].percentage])
        avgQuizScore == Frac(total, Len(names))
        correctPercent ==
            IF ts.questionsAnswered.total > 0
            THEN Times(Frac(ts.questionsAnswered.correct, ts.questionsAnswered.total),
                       Num(100))
            ELSE Num(0)
    IN  IF hasQuizzes THEN Times(Over(avgQuizScore, 100), Num(30))
        ELSE IF hasQuestions THEN Times(Over(correctPercent, 100), Num(30))
        ELSE Num(0)

\* Math.min(100, (trackerState.activeTime / CONFIG.minActiveTime) * weight),
\* weight 25 at part_000:967 and 40 at part_000:1008
timeProgress(ts, weight) ==
    MathMin(Num(100), Times(Frac(ts.activeTime, minActiveTime), Num(weight)))

\* the quiz-aware sum, with one point per interaction up to 15 as in the
\* standard sum
quizAwareSumFullInteractions(ts) ==
    LET scrollProgress == Times(Frac(ts.maxScrollDepth, 100), Num(20))
        interactionProgress == MathMin(Num(15), Num(ts.interactions))
    IN  Plus(Plus(Plus(Plus(timeProgress(ts, 25), scrollProgress),
                       interactionProgress),
                  quizComponent(ts)),
             objectivesComponent(ts))

quizAwareSum(ts) ==
    LET scrollProgress == Times(Frac(ts.maxScrollDepth, 100), Num(20))
        interactionProgress == MathMin(Num(10), Frac(ts.interactions, 2))
    IN  Plus(Plus(Plus(Plus(timeProgress(ts, 25), scrollProgress),
                       interactionProgress),
                  quizComponent(ts)),
             objectivesComponent(ts))

\* the standard sum, with one point per two interactions as in the quiz-aware
\* sum
standardSumHalfInteractions(ts) ==
    LET scrollProgress == Times(Frac(ts.maxScrollDepth, 100), Num(30))
        interactionProgress == MathMin(Num(15), Frac(ts.interactions, 2))
    IN  Plus(Plus(Plus(timeProgress(ts, 40), scrollProgress), interactionProgress),
             objectivesComponent(ts))

standardSum(ts) ==
    LET scrollProgress == Times(Frac(ts.maxScrollDepth, 100), Num(30))
        interactionProgress == MathMin(Num(15), Num(ts.interactions))
    IN  Plus(Plus(Plus(timeProgress(ts, 40), scrollProgress), interactionProgress),
             objectivesComponent(ts))

\* the branch condition, taking quiz scores alone as the sign of a quiz
quizAwareModeQuizzesOnly(ts) == Cardinality(DOMAIN ts.quizScores) > 0

\* the branch condition, taking answered questions alone as the sign of a quiz
quizAwareModeQuestionsOnly(ts) == ts.questionsAnswered.total > 0

\* the branch condition hasQuizzes || hasQuestions (part_000:958-962)
quizAwareMode(ts) ==
    LET hasQuizzes == Cardinality(DOMAIN ts.quizScores) > 0
        hasQuestions == ts.questionsAnswered.total > 0
    IN  hasQuizzes \/ hasQuestions

calculateProgress(ts) ==
    LET progress == IF quizAwareMode(ts)
                    THEN quizAwareSum(ts)
                    ELSE standardSum(ts)
        rounded == MathRound(progress)
    IN  IF rounded > 100 THEN 100 ELSE rounded

(***************************************************************************)
(* calculateProgress of the earlier tracker in the same file               *)
(* (part_000:588-614), with its own CONFIG.minActiveTime (part_000:381).   *)
(***************************************************************************)
minActiveTimeV1 == 30

\* the earlier calculateProgress with the time component capped at its
\* weight
calculateProgressV1TimeCapped(ts) ==
    LET timeProgressV1 ==
            MathMin(Num(40), Times(Frac(ts.activeTime, minActiveTimeV1), Num(40)))
        scrollProgress == Times(Frac(ts.maxScrollDepth, 100), Num(30))
        interactionProgress == MathMin(Num(15), Num(ts.interactions))
        completedObjectives ==
            Cardinality({k \in 1..Len(ts.objectives) : ts.objectives[k].completed})
        objectiveProgress ==
            IF Len(ts.objectives) > 0
            THEN Times(Frac(completedObjectives, Len(ts.objectives)), Num(15))
            ELSE Num(15)
        rounded == MathRound(Plus(Plus(Plus(timeProgressV1, scrollProgress),
                                       interactionProgress),
                                  objectiveProgress))
    IN  IF rounded > 100 THEN 100 ELSE rounded

calculateProgressV1(ts) ==
    LET timeProgressV1 ==
            MathMin(Num(100), Times(Frac(ts.activeTime, minActiveTimeV1), Num(40)))
        scrollProgress == Times(Frac(ts.maxScrollDepth, 100), Num(30))
        interactionProgress == MathMin(Num(15), Num(ts.interactions))
        completedObjectives ==
            Cardinality({k \in 1..Len(ts.objectives) : ts.objectives[k].completed})
        objectiveProgress ==
            IF Len(ts.objectives) > 0
            THEN Times(Frac(completedObjectives, Len(ts.objectives)), Num(15))
            ELSE Num(15)
        rounded == MathRound(Plus(Plus(Plus(timeProgressV1, scrollProgress),
                                       interactionProgress),
                                  objectiveProgress))
    IN  IF rounded > 100 THEN 100 ELSE rounded

(***************************************************************************)
(* Messages.                                                               *)
(***************************************************************************)
\* sendToParent, posting to window.parent whatever it is
sendToParentUnchecked(message) ==
    [channel |-> "parent.postMessage", message |-> message]

\* sendToParent (part_000:1034-1050): post to the parent frame, else to the
\* opener, else only console.log
sendToParent(message) ==
    [channel |-> IF host = "parent" THEN "parent.postMessage"
                 ELSE IF host = "opener" THEN "opener.postMessage"
                 ELSE "console.log",
     message |-> message]

\* the message sendProgressUpdate builds (part_000:932-951) from state ts
progressUpdate(ts) ==
    [type |-> "PROGRESS_UPDATE",
     lessonId |-> ts.lessonId,
     data |-> [progress |-> calculateProgress(ts),
               scrollDepth |-> ts.maxScrollDepth,
               activeTime |-> ts.activeTime,
               totalTime |-> ts.totalTime,
               interactions |-> ts.interactions,
               objectives |-> ts.objectives,
               quizScores |-> ts.quizScores,
               topicProgress |-> ts.topicProgress,
               questionsAnswered |-> ts.questionsAnswered]]

sendProgressUpdate(ts) == <<sendToParent(progressUpdate(ts))>>

(***************************************************************************)
(* The state once the script has run: trackerState as declared, the public *)
(* API and the beforeunload listener installed, init() still to run.       *)
(***************************************************************************)
Init ==
    /\ trackerState =
         [lessonId |-> Null,
          startTime |-> 0,
          lastActivity |-> 0,
          totalTime |-> 0,
          activeTime |-> 0,
          scrollDepth |-> 0,
          maxScrollDepth |-> 0,
          interactions |-> 0,
          objectives |-> <<>>,
          isActive |-> TRUE,
          isFullscreen |-> FALSE,
          quizScores |-> <<>>,
          topicProgress |-> <<>>,
          questionsAnswered |-> emptyQuestions]
    /\ now = 0
    /\ initialized = FALSE
    /\ host \in Hosts
    /\ scrollTimeout = FALSE
    /\ snapshot = <<>>
    /\ sent = <<>>
    /\ lastOp = [name |-> "load", args |-> <<>>]
    /\ history = [lessonIdSet |-> <<>>, quizRecorded |-> FALSE, cleared |-> {}]
    /\ opCount = 0
    /\ radarLoaded

\* every handler run is counted and labelled; history keeps the argument of
\* the last setLessonId call, whether recordQuizScore was ever called, and the
\* questions that were in the ledger when resetQuestions ran
Ran(name, args) ==
    /\ opCount < MaxOps
    /\ opCount' = opCount + 1
    /\ lastOp' = [name |-> name, args |-> args]
    /\ history' = IF name = "setLessonId"
                  THEN [history EXCEPT !.lessonIdSet = <<args[1]>>]
                  ELSE IF name = "recordQuizScore"
                  THEN [history EXCEPT !.quizRecorded = TRUE]
                  ELSE IF name = "resetQuestions"
                  THEN [history EXCEPT !.cleared =
                           @ \cup DOMAIN trackerState.questionsAnswered.questions]
                  ELSE history
    /\ UNCHANGED radarVars

(***************************************************************************)
(* window.CAETTracker: the public API (part_000:1053-1178).                *)
(***************************************************************************)
\* find, comparing the stored name as written
findAsWritten(objectives, key) ==
    LET hits == {i \in 1..Len(objectives) : objectives[i].name = key}
    IN  IF hits = {} THEN 0 ELSE CHOOSE i \in hits : \A j \in hits : i <= j

\* index of the first objective whose normalized name is key, 0 when none
find(objectives, key) ==
    LET hits == {i \in 1..Len(objectives) : normalize(objectives[i].name) = key}
    IN  IF hits = {} THEN 0 ELSE CHOOSE i \in hits : \A j \in hits : i <= j

\* completeObjective, storing the new score whatever the old one was
completeObjectiveOverwriting(objectives, objectiveName, score) ==
    LET existing ==
            LET hits == {i \in 1..Len(objectives) :
                            normalize(objectives[i].name) = normalize(objectiveName)}
            IN  IF hits = {} THEN 0 ELSE CHOOSE i \in hits : \A j \in hits : i <= j
    IN  IF existing # 0
        THEN [objectives EXCEPT ![existing] =
                 [@ EXCEPT !.completed = TRUE, !.score = score]]
        ELSE Append(objectives,
                    [name |-> objectiveName, completed |-> TRUE, score |-> score])

completeObjectiveUpdate(objectives, objectiveName, score) ==
    LET existing == find(objectives, normalize(objectiveName))
    IN  IF existing # 0
        THEN [objectives EXCEPT ![existing] =
                 [@ EXCEPT !.completed = TRUE,
                           !.score = IF @ < score THEN score ELSE @]]
        ELSE Append(objectives,
                    [name |-> objectiveName, completed |-> TRUE, score |-> score])

\* completeObjective building its PROGRESS_UPDATE before it writes the
\* objective
completeObjectiveReportsFirst(objectiveName, score) ==
    /\ Ran("completeObjective", <<objectiveName, score>>)
    /\ trackerState' = [trackerState EXCEPT !.objectives =
           completeObjectiveUpdate(@, objectiveName, score)]
    /\ sent' = sendProgressUpdate(trackerState)
    /\ UNCHANGED <<now, initialized, host, scrollTimeout, snapshot>>

completeObjective(objectiveName, score) ==
    /\ Ran("completeObjective", <<objectiveName, score>>)
    /\ trackerState' = [trackerState EXCEPT !.objectives =
           completeObjectiveUpdate(@, objectiveName, score)]
    /\ sent' = sendProgressUpdate(trackerState')
    /\ UNCHANGED <<now, initialized, host, scrollTimeout, snapshot>>

\* addObjective, putting an entry that exists back to "not completed"
addObjectiveUpdateResetting(objectives, objectiveName) ==
    LET existing == find(objectives, normalize(objectiveName))
    IN  IF existing = 0
        THEN Append(objectives,
                    [name |-> objectiveName, completed |-> FALSE, score |-> 0])
        ELSE [objectives EXCEPT ![existing] =
                 [@ EXCEPT !.completed = FALSE, !.score = 0]]

addObjectiveUpdate(objectives, objectiveName) ==
    IF find(objectives, normalize(objectiveName)) = 0
    THEN Append(objectives,
                [name |-> objectiveName, completed |-> FALSE, score |-> 0])
    ELSE objectives

addObjective(objectiveName) ==
    /\ Ran("addObjective", <<objectiveName>>)
    /\ trackerState' = [trackerState EXCEPT !.objectives =
           addObjectiveUpdate(@, objectiveName)]
    /\ sent' = <<>>
    /\ UNCHANGED <<now, initialized, host, scrollTimeout, snapshot>>

\* Math.round((score / maxScore) * 100)
percentageOf(score, maxScore) == MathRound(Times(Frac(score, maxScore), Num(100)))

\* recordQuizScore, storing every submission
recordQuizScoreLatest(quizScores, quizName, score, maxScore, totalQuestions) ==
    [k \in DOMAIN quizScores \cup {quizName} |->
        IF k = quizName
        THEN [score |-> score,
              maxScore |-> maxScore,
              percentage |-> (2 * 100 * score + maxScore) \div (2 * maxScore),
              totalQuestions |-> IF totalQuestions = 0
                                 THEN maxScore ELSE totalQuestions]
        ELSE quizScores[k]]

recordQuizScoreUpdate(quizScores, quizName, score, maxScore, totalQuestions) ==
    LET percentage == percentageOf(score, maxScore)
        existingQuiz == Truthy(quizScores, quizName)
        \* existingQuiz.percentage of an inherited function is undefined,
        \* and no number is greater than undefined
        higher == /\ quizName \in DOMAIN quizScores
                  /\ percentage > quizScores[quizName].percentage
    IN  IF ~existingQuiz \/ higher
        THEN Put(quizScores, quizName,
                 [score |-> score,
                  maxScore |-> maxScore,
                  percentage |-> percentage,
                  totalQuestions |-> IF totalQuestions = 0
                                     THEN maxScore ELSE totalQuestions])
        ELSE quizScores

recordQuizScore(quizName, score, maxScore, totalQuestions) ==
    /\ Ran("recordQuizScore", <<quizName, score, maxScore, totalQuestions>>)
    /\ trackerState' = [trackerState EXCEPT !.quizScores =
           recordQuizScoreUpdate(@, quizName, score, maxScore, totalQuestions)]
    /\ sent' = sendProgressUpdate(trackerState')
    /\ UNCHANGED <<now, initialized, host, scrollTimeout, snapshot>>

\* recordQuestionAnswer, counting every answer as correct
recordQuestionAnswerAllCorrect(questionsAnswered, questionId, isCorrect) ==
    [total |-> questionsAnswered.total + 1,
     correct |-> questionsAnswered.correct + 1,
     questions |->
        [k \in DOMAIN questionsAnswered.questions \cup {questionId} |->
            IF k = questionId
            THEN [answered |-> TRUE, correct |-> isCorrect, text |-> <<>>]
            ELSE questionsAnswered.questions[k]]]

recordQuestionAnswerUpdate(questionsAnswered, questionId, isCorrect) ==
    [total |-> questionsAnswered.total + 1,
     correct |-> IF isCorrect THEN questionsAnswered.correct + 1
                 ELSE questionsAnswered.correct,
     questions |-> Put(questionsAnswered.questions, questionId,
                       [answered |-> TRUE, correct |-> isCorrect, text |-> <<>>])]

\* the guard, letting a question answered wrongly be answered again
notTrackedOrWrong(questionsAnswered, questionId) ==
    \/ questionId \notin DOMAIN questionsAnswered.questions
          /\ questionId \notin ObjectPrototypeKeys
    \/ questionId \in DOMAIN questionsAnswered.questions
          /\ ~questionsAnswered.questions[questionId].correct

\* the guard !trackerState.questionsAnswered.questions[questionId]
notTracked(questionsAnswered, questionId) ==
    ~Truthy(questionsAnswered.questions, questionId)

recordQuestionAnswer(questionId, isCorrect) ==
    /\ Ran("recordQuestionAnswer", <<questionId, isCorrect>>)
    /\ IF notTracked(trackerState.questionsAnswered, questionId)
       THEN /\ trackerState' = [trackerState EXCEPT !.questionsAnswered =
                   recordQuestionAnswerUpdate(@, questionId, isCorrect)]
            /\ sent' = sendProgressUpdate(trackerState')
       ELSE /\ trackerState' = trackerState
            /\ sent' = <<>>
    /\ UNCHANGED <<now, initialized, host, scrollTimeout, snapshot>>

\* the percentage as given, without Math.min / Math.max
clampPercentageAsGiven(percentage) == percentage

\* Math.min(100, Math.max(0, percentage))
clampPercentage(percentage) ==
    LET atLeast == IF percentage < 0 THEN 0 ELSE percentage
    IN  IF atLeast > 100 THEN 100 ELSE atLeast

updateTopicProgress(topicName, percentage) ==
    /\ Ran("updateTopicProgress", <<topicName, percentage>>)
    /\ trackerState' = [trackerState EXCEPT !.topicProgress =
           Put(@, topicName, clampPercentage(percentage))]
    /\ sent' = sendProgressUpdate(trackerState')
    /\ UNCHANGED <<now, initialized, host, scrollTimeout, snapshot>>

completedMessage(ts) ==
    [type |-> "LESSON_COMPLETED",
     lessonId |-> ts.lessonId,
     data |-> [activeTime |-> ts.activeTime,
               scrollDepth |-> ts.maxScrollDepth,
               objectives |-> ts.objectives,
               quizScores |-> ts.quizScores,
               topicProgress |-> ts.topicProgress,
               questionsAnswered |-> ts.questionsAnswered]]

\* markCompleted, reporting completion only once progress has reached 100
markCompletedWhenDone ==
    /\ calculateProgress(trackerState) >= 100
    /\ Ran("markCompleted", <<>>)
    /\ sent' = <<sendToParent(completedMessage(trackerState))>>
    /\ UNCHANGED <<trackerState, now, initialized, host, scrollTimeout, snapshot>>

markCompleted ==
    /\ Ran("markCompleted", <<>>)
    /\ sent' = <<sendToParent(completedMessage(trackerState))>>
    /\ UNCHANGED <<trackerState, now, initialized, host, scrollTimeout, snapshot>>

setLessonId(id) ==
    /\ Ran("setLessonId", <<id>>)
    /\ trackerState' = [trackerState EXCEPT !.lessonId = id]
    /\ sent' = <<>>
    /\ UNCHANGED <<now, initialized, host, scrollTimeout, snapshot>>

\* resetQuestions, zeroing the two counters and keeping the per-question map
resetQuestionsCountersOnly ==
    /\ Ran("resetQuestions", <<>>)
    /\ trackerState' = [trackerState EXCEPT !.questionsAnswered.total = 0,
                                            !.questionsAnswered.correct = 0]
    /\ sent' = sendProgressUpdate(trackerState')
    /\ UNCHANGED <<now, initialized, host, scrollTimeout, snapshot>>

\* a new ledger object replaces the old one; a getState() result that held the
\* old object keeps it
resetQuestions ==
    /\ Ran("resetQuestions", <<>>)
    /\ trackerState' = [trackerState EXCEPT !.questionsAnswered = emptyQuestions]
    /\ snapshot' = IF snapshot # <<>> /\ snapshot[1].sharesQuestions
                   THEN <<[snapshot[1] EXCEPT
                             !.sharesQuestions = FALSE,
                             !.questionsAnswered = trackerState.questionsAnswered]>>
                   ELSE snapshot
    /\ sent' = sendProgressUpdate(trackerState')
    /\ UNCHANGED <<now, initialized, host, scrollTimeout>>

(***************************************************************************)
(* getState (part_000:1160-1162) returns { ...trackerState }: a new object *)
(* with the same property values.  Numbers, strings and booleans are       *)
(* copied; objectives, quizScores, topicProgress and questionsAnswered are *)
(* the tracker's own objects.  The first three are never reassigned, so    *)
(* the result shares them for ever; questionsAnswered is shared until      *)
(* resetQuestions replaces it.                                             *)
(***************************************************************************)
getState ==
    /\ Ran("getState", <<>>)
    /\ snapshot' = <<[lessonId |-> trackerState.lessonId,
                      startTime |-> trackerState.startTime,
                      lastActivity |-> trackerState.lastActivity,
                      totalTime |-> trackerState.totalTime,
                      activeTime |-> trackerState.activeTime,
                      scrollDepth |-> trackerState.scrollDepth,
                      maxScrollDepth |-> trackerState.maxScrollDepth,
                      interactions |-> trackerState.interactions,
                      isActive |-> trackerState.isActive,
                      isFullscreen |-> trackerState.isFullscreen,
                      sharesQuestions |-> TRUE,
                      questionsAnswered |-> trackerState.questionsAnswered]>>
    /\ sent' = <<>>
    /\ UNCHANGED <<trackerState, now, initialized, host, scrollTimeout>>

(***************************************************************************)
(* The lesson script writing to the object getState() returned.            *)
(***************************************************************************)
\* state.activeTime = value: an own property of the copy
callerSetsActiveTime(value) ==
    /\ snapshot # <<>>
    /\ Ran("state.activeTime=", <<value>>)
    /\ snapshot' = <<[snapshot[1] EXCEPT !.activeTime = value]>>
    /\ sent' = <<>>
    /\ UNCHANGED <<trackerState, now, initialized, host, scrollTimeout>>

\* state.objectives.push({ name, completed: true, score })
callerPushesObjective(objectiveName, score) ==
    /\ snapshot # <<>>
    /\ Len(trackerState.objectives) < Cardinality(ObjectiveNames)
    /\ Ran("state.objectives.push", <<objectiveName, score>>)
    /\ trackerState' = [trackerState EXCEPT !.objectives =
           Append(@, [name |-> objectiveName, completed |-> TRUE, score |-> score])]
    /\ sent' = <<>>
    /\ UNCHANGED <<now, initialized, host, scrollTimeout, snapshot>>

\* delete state.quizScores[quizName]
callerDeletesQuiz(quizName) ==
    /\ snapshot # <<>>
    /\ quizName \in DOMAIN trackerState.quizScores
    /\ Ran("delete state.quizScores[]", <<quizName>>)
    /\ trackerState' = [trackerState EXCEPT !.quizScores =
           [k \in DOMAIN @ \ {quizName} |-> @[k]]]
    /\ sent' = <<>>
    /\ UNCHANGED <<now, initialized, host, scrollTimeout, snapshot>>

\* state.topicProgress[topicName] = percentage
callerSetsTopic(topicName, percentage) ==
    /\ snapshot # <<>>
    /\ Ran("state.topicProgress[]=", <<topicName, percentage>>)
    /\ trackerState' = [trackerState EXCEPT !.topicProgress =
           Put(@, topicName, percentage)]
    /\ sent' = <<>>
    /\ UNCHANGED <<now, initialized, host, scrollTimeout, snapshot>>

\* state.questionsAnswered.correct = value
callerSetsCorrect(value) ==
    /\ snapshot # <<>>
    /\ Ran("state.questionsAnswered.correct=", <<value>>)
    /\ IF snapshot[1].sharesQuestions
       THEN /\ trackerState' = [trackerState EXCEPT
                                   !.questionsAnswered.correct = value]
            /\ snapshot' = snapshot
       ELSE /\ snapshot' = <<[snapshot[1] EXCEPT
                                 !.questionsAnswered.correct = value]>>
            /\ trackerState' = trackerState
    /\ sent' = <<>>
    /\ UNCHANGED <<now, initialized, host, scrollTimeout>>

(***************************************************************************)
(* init (part_000:769-791), run at once or on DOMContentLoaded             *)
(* (part_000:1180-1185): detect the lesson id, install the listeners,      *)
(* start the two timers, announce TRACKER_READY.                           *)
(***************************************************************************)
\* detectLessonId, looking at the URL parameter before the meta tag
detectLessonIdUrlFirst(metaLesson, urlLesson, bodyLesson) ==
    IF urlLesson # Null THEN urlLesson
    ELSE IF metaLesson # Null THEN metaLesson
    ELSE IF bodyLesson # Null /\ bodyLesson # <<>> THEN bodyLesson
    ELSE unknown

detectLessonId(metaLesson, urlLesson, bodyLesson) ==
    IF metaLesson # Null THEN metaLesson
    ELSE IF urlLesson # Null THEN urlLesson
    ELSE IF bodyLesson # Null /\ bodyLesson # <<>> THEN bodyLesson
    ELSE unknown

init(metaLesson, urlLesson, bodyLesson) ==
    /\ ~initialized
    /\ Ran("init", <<metaLesson, urlLesson, bodyLesson>>)
    /\ trackerState' = [trackerState EXCEPT !.lessonId =
           detectLessonId(metaLesson, urlLesson, bodyLesson)]
    /\ initialized' = TRUE
    /\ sent' = <<sendToParent([type |-> "TRACKER_READY",
                               lessonId |-> trackerState'.lessonId,
                               lessonTitle |-> lessonTitle])>>
    /\ UNCHANGED <<now, host, scrollTimeout, snapshot>>

(***************************************************************************)
(* Listeners installed by init.                                            *)
(***************************************************************************)
\* scroll listener (part_000:823-830): restart the 100 ms debounce timer
\* the scroll listener without the timer: every scroll event is counted at once
scrollUndebounced ==
    /\ initialized
    /\ Ran("scroll", <<>>)
    /\ trackerState' = [trackerState EXCEPT !.interactions = @ + 1,
                                            !.lastActivity = now]
    /\ sent' = <<>>
    /\ UNCHANGED <<now, initialized, host, scrollTimeout, snapshot>>

scroll ==
    /\ initialized
    /\ Ran("scroll", <<>>)
    /\ scrollTimeout' = TRUE
    /\ sent' = <<>>
    /\ UNCHANGED <<trackerState, now, initialized, host, snapshot>>

\* updateScrollDepth (part_000:834-845)
updateScrollDepth(ts, scrollTop, scrollHeight, innerHeight) ==
    LET scrollPercent ==
            MathRound(Times(Frac(scrollTop, scrollHeight - innerHeight), Num(100)))
        depth == IF scrollPercent > 100 THEN 100 ELSE scrollPercent
    IN  [ts EXCEPT !.scrollDepth = depth,
                   !.maxScrollDepth = IF depth > @ THEN depth ELSE @]

\* the debounce timer fires (part_000:825-829)
scrollTimeoutFires(scrollTop, scrollHeight, innerHeight) ==
    /\ scrollTimeout
    /\ Ran("scrollTimeout", <<scrollTop, scrollHeight, innerHeight>>)
    /\ scrollTimeout' = FALSE
    /\ trackerState' =
           [updateScrollDepth(trackerState, scrollTop, scrollHeight, innerHeight)
               EXCEPT !.interactions = @ + 1, !.lastActivity = now]
    /\ sent' = <<>>
    /\ UNCHANGED <<now, initialized, host, snapshot>>

\* click and keydown listeners (part_000:849-857)
click ==
    /\ initialized
    /\ Ran("click", <<>>)
    /\ trackerState' = [trackerState EXCEPT !.interactions = @ + 1,
                                            !.lastActivity = now]
    /\ sent' = <<>>
    /\ UNCHANGED <<now, initialized, host, scrollTimeout, snapshot>>

keydown ==
    /\ initialized
    /\ Ran("keydown", <<>>)
    /\ trackerState' = [trackerState EXCEPT !.interactions = @ + 1,
                                            !.lastActivity = now]
    /\ sent' = <<>>
    /\ UNCHANGED <<now, initialized, host, scrollTimeout, snapshot>>

\* video play / ended listeners (part_000:860-874)
videoEvent(type) ==
    /\ initialized
    /\ Ran("video", <<type>>)
    /\ sent' = <<sendToParent([type |-> type, lessonId |-> trackerState.lessonId])>>
    /\ UNCHANGED <<trackerState, now, initialized, host, scrollTimeout, snapshot>>

\* visibilitychange listener (part_000:879-886)
visibilitychange(hidden) ==
    /\ initialized
    /\ Ran("visibilitychange", <<hidden>>)
    /\ trackerState' = IF hidden
                       THEN [trackerState EXCEPT !.isActive = FALSE]
                       ELSE [trackerState EXCEPT !.isActive = TRUE,
                                                 !.lastActivity = now]
    /\ sent' = <<>>
    /\ UNCHANGED <<now, initialized, host, scrollTimeout, snapshot>>

\* blur and focus listeners (part_000:889-896)
blur ==
    /\ initialized
    /\ Ran("blur", <<>>)
    /\ trackerState' = [trackerState EXCEPT !.isActive = FALSE]
    /\ sent' = <<>>
    /\ UNCHANGED <<now, initialized, host, scrollTimeout, snapshot>>

focus ==
    /\ initialized
    /\ Ran("focus", <<>>)
    /\ trackerState' = [trackerState EXCEPT !.isActive = TRUE,
                                            !.lastActivity = now]
    /\ sent' = <<>>
    /\ UNCHANGED <<now, initialized, host, scrollTimeout, snapshot>>

\* fullscreenchange listener (part_000:901-907)
fullscreenchange(hasFullscreenElement) ==
    /\ initialized
    /\ Ran("fullscreenchange", <<hasFullscreenElement>>)
    /\ trackerState' = [trackerState EXCEPT !.isFullscreen = hasFullscreenElement]
    /\ sent' = <<sendToParent([type |-> "FULLSCREEN_CHANGED",
                               isFullscreen |-> hasFullscreenElement])>>
    /\ UNCHANGED <<now, initialized, host, scrollTimeout, snapshot>>

(***************************************************************************)
(* Timers started by init, and the beforeunload listener.                  *)
(***************************************************************************)
\* the timeCheckInterval callback, counting every second as active
timeTickAlwaysActive(gap) ==
    /\ initialized
    /\ Ran("timeTick", <<gap>>)
    /\ now' = now + gap
    /\ trackerState' =
           [trackerState EXCEPT
               !.totalTime = now' - trackerState.startTime,
               !.activeTime = @ + 1]
    /\ sent' = <<>>
    /\ UNCHANGED <<initialized, host, scrollTimeout, snapshot>>

\* the timeCheckInterval callback without its totalTime assignment
timeTickActiveOnly(gap) ==
    /\ initialized
    /\ Ran("timeTick", <<gap>>)
    /\ now' = now + gap
    /\ trackerState' =
           [trackerState EXCEPT
               !.activeTime =
                   IF now' - trackerState.lastActivity < idleTimeout
                      /\ trackerState.isActive
                   THEN @ + 1 ELSE @]
    /\ sent' = <<>>
    /\ UNCHANGED <<initialized, host, scrollTimeout, snapshot>>

\* the timeCheckInterval callback (part_000:912-921), gap seconds after the
\* previous run
timeTick(gap) ==
    /\ initialized
    /\ Ran("timeTick", <<gap>>)
    /\ now' = now + gap
    /\ trackerState' =
           [trackerState EXCEPT
               !.totalTime = now' - trackerState.startTime,
               !.activeTime =
                   IF now' - trackerState.lastActivity < idleTimeout
                      /\ trackerState.isActive
                   THEN @ + 1 ELSE @]
    /\ sent' = <<>>
    /\ UNCHANGED <<initialized, host, scrollTimeout, snapshot>>

\* the updateInterval callback (part_000:926-928)
reportTick ==
    /\ initialized
    /\ Ran("reportTick", <<>>)
    /\ sent' = sendProgressUpdate(trackerState)
    /\ UNCHANGED <<trackerState, now, initialized, host, scrollTimeout, snapshot>>

\* beforeunload listener (part_000:1188-1190), installed when the script runs
beforeunload ==
    /\ Ran("beforeunload", <<>>)
    /\ sent' = sendProgressUpdate(trackerState)
    /\ UNCHANGED <<trackerState, now, initialized, host, scrollTimeout, snapshot>>

(***************************************************************************)
(* Specifications.                                                         *)
(***************************************************************************)
ApiCall ==
    \/ \E n \in ObjectiveNames, sc \in ObjectiveScores : completeObjective(n, sc)
    \/ \E n \in ObjectiveNames : addObjective(n)
    \/ \E n \in QuizNames, q \in QuizInputs : recordQuizScore(n, q[1], q[2], q[3])
    \/ \E id \in QuestionIds, isCorrect \in BOOLEAN : recordQuestionAnswer(id, isCorrect)
    \/ \E t \in TopicNames, p \in TopicInputs : updateTopicProgress(t, p)
    \/ markCompleted
    \/ \E id \in LessonIds : setLessonId(id)
    \/ resetQuestions

PageEvent ==
    \/ \E m \in MetaContents, u \in UrlLessons, b \in BodyLessonIds : init(m, u, b)
    \/ scroll
    \/ \E g \in ScrollGeometries : scrollTimeoutFires(g[1], g[2], g[3])
    \/ click
    \/ keydown
    \/ \E type \in {"VIDEO_STARTED", "VIDEO_COMPLETED"} : videoEvent(type)
    \/ \E hidden \in BOOLEAN : visibilitychange(hidden)
    \/ blur
    \/ focus
    \/ \E f \in BOOLEAN : fullscreenchange(f)
    \/ \E gap \in TickGaps : timeTick(gap)
    \/ reportTick
    \/ beforeunload

CallerWrite ==
    \/ getState
    \/ \E v \in {0, 30} : callerSetsActiveTime(v)
    \/ \E n \in ObjectiveNames, sc \in ObjectiveScores : callerPushesObjective(n, sc)
    \/ \E n \in QuizNames : callerDeletesQuiz(n)
    \/ \E t \in TopicNames, p \in TopicInputs : callerSetsTopic(t, p)
    \/ \E v \in {0, 5} : callerSetsCorrect(v)

\* the tracker under its own operations and the page's events
Next == ApiCall \/ PageEvent

Spec == Init /\ [][Next]_vars

\* the same, with a lesson script that also writes to what getState() returned
NextAlias == ApiCall \/ PageEvent \/ CallerWrite

SpecAlias == Init /\ [][NextAlias]_vars

(***************************************************************************)
(* calculateProgress as a function of the session.  Spec reaches only the  *)
(* first seconds of a session; SpecCalc starts from a session some way in: *)
(* the counters are drawn from sets, the collections are what the API      *)
(* calls leave behind.  init has run, and the two handlers that report run *)
(* calculateProgress on it.                                                *)
(***************************************************************************)
ActiveTimes == {0, 15, 30, 75}
ScrollDepths == {0, 50, 100}
InteractionCounts == {0, 10, 15, 20, 30}
ObjectiveLists ==
    {<<>>,
     addObjectiveUpdate(<<>>, SeriesCircuits),
     completeObjectiveUpdate(<<>>, OhmsLawA, 90),
     addObjectiveUpdate(completeObjectiveUpdate(<<>>, OhmsLawA, 90),
                        SeriesCircuits)}
QuizScoreTables == {<<>>, recordQuizScoreUpdate(<<>>, QuizA, 60, 100, 0)}
QuestionLedgers ==
    {emptyQuestions,
     recordQuestionAnswerUpdate(emptyQuestions, <<"q", "1">>, TRUE)}

InitCalc ==
    \E activeTime \in ActiveTimes, maxScrollDepth \in ScrollDepths,
       interactions \in InteractionCounts, objectives \in ObjectiveLists,
       quizScores \in QuizScoreTables, questionsAnswered \in QuestionLedgers :
        /\ trackerState =
              [lessonId |-> unknown,
               startTime |-> 0,
               lastActivity |-> activeTime,
               totalTime |-> activeTime,
               activeTime |-> activeTime,
               scrollDepth |-> maxScrollDepth,
               maxScrollDepth |-> maxScrollDepth,
               interactions |-> interactions,
               objectives |-> objectives,
               isActive |-> TRUE,
               isFullscreen |-> FALSE,
               quizScores |-> quizScores,
               topicProgress |-> <<>>,
               questionsAnswered |-> questionsAnswered]
        /\ now = activeTime
        /\ initialized = TRUE
        /\ host = "parent"
        /\ scrollTimeout = FALSE
        /\ snapshot = <<>>
        /\ sent = <<>>
        /\ lastOp = [name |-> "load", args |-> <<>>]
        /\ history = [lessonIdSet |-> <<>>, quizRecorded |-> quizScores # <<>>,
                      cleared |-> {}]
        /\ opCount = 0
        /\ radarLoaded

NextCalc == reportTick \/ beforeunload

SpecCalc == InitCalc /\ [][NextCalc]_vars

(***************************************************************************)
(* The session without an end.  The lesson script and the user make at     *)
(* most MaxLiveOps calls and events; DOMContentLoaded and the              *)
(* updateInterval timer are the browser's and are not counted: the         *)
(* event fires once the document is parsed, and the interval, never        *)
(* cleared, fires again and again.                                         *)
(***************************************************************************)
Uncounted(name, args) ==
    /\ lastOp' = [name |-> name, args |-> args]
    /\ UNCHANGED <<history, opCount>>
    /\ UNCHANGED radarVars

\* document.addEventListener('DOMContentLoaded', init) (part_000:1181-1182)
domContentLoaded(metaLesson, urlLesson, bodyLesson) ==
    /\ ~initialized
    /\ Uncounted("init", <<metaLesson, urlLesson, bodyLesson>>)
    /\ trackerState' = [trackerState EXCEPT !.lessonId =
           detectLessonId(metaLesson, urlLesson, bodyLesson)]
    /\ initialized' = TRUE
    /\ sent' = <<sendToParent([type |-> "TRACKER_READY",
                               lessonId |-> trackerState'.lessonId,
                               lessonTitle |-> lessonTitle])>>
    /\ UNCHANGED <<now, host, scrollTimeout, snapshot>>

\* the interval of startProgressReporting, never started
reportTimerNotStarted ==
    /\ FALSE
    /\ UNCHANGED vars

\* setInterval(() => sendProgressUpdate(), CONFIG.updateInterval)
\* (part_000:925-929)
reportTimerFires ==
    /\ initialized
    /\ Uncounted("reportTick", <<>>)
    /\ sent' = sendProgressUpdate(trackerState)
    /\ UNCHANGED <<trackerState, now, initialized, host, scrollTimeout, snapshot>>

DocumentParsed ==
    \E m \in MetaContents, u \in UrlLessons, b \in BodyLessonIds :
        domContentLoaded(m, u, b)

NextLive ==
    \/ opCount < MaxLiveOps /\ (ApiCall \/ PageEvent)
    \/ DocumentParsed
    \/ reportTimerFires

SpecLive ==
    /\ Init
    /\ [][NextLive]_vars
    /\ WF_vars(DocumentParsed)
    /\ WF_vars(reportTimerFires)

(***************************************************************************)
(* Startup.  SpecStartup looks at the pages init can find: the meta tag,   *)
(* the URL parameter and the body attribute each absent, empty or set,     *)
(* with setLessonId calls and reports around init.                         *)
(***************************************************************************)
PageMetaContents == MetaContents \cup {<<>>}
PageUrlLessons == UrlLessons \cup {<<>>}

NextStartup ==
    \/ \E m \in PageMetaContents, u \in PageUrlLessons, b \in BodyLessonIds :
          init(m, u, b)
    \/ \E id \in LessonIds : setLessonId(id)
    \/ markCompleted
    \/ reportTick
    \/ beforeunload

SpecStartup == Init /\ [][NextStartup]_vars

(***************************************************************************)
(* Scrolling.  SpecScroll adds the geometry of an elastic overscroll at    *)
(* the top of the page, where window.pageYOffset is negative.              *)
(***************************************************************************)
PageScrollGeometries == ScrollGeometries \cup {<<-50, 2000, 1000>>}

NextScroll ==
    \/ \E m \in MetaContents, u \in UrlLessons, b \in BodyLessonIds : init(m, u, b)
    \/ scroll
    \/ \E g \in PageScrollGeometries : scrollTimeoutFires(g[1], g[2], g[3])
    \/ click
    \/ reportTick
    \/ beforeunload

SpecScroll == Init /\ [][NextScroll]_vars

(***************************************************************************)
(* The two versions side by side.  SpecVersions starts from the sessions   *)
(* of InitCalc and lets the reporting timer of either tracker build its    *)
(* PROGRESS_UPDATE from the same session.                                  *)
(***************************************************************************)
\* the message of the earlier sendProgressUpdate (part_000:567-585)
progressUpdateV1(ts) ==
    [type |-> "PROGRESS_UPDATE",
     lessonId |-> ts.lessonId,
     data |-> [progress |-> calculateProgressV1(ts),
               scrollDepth |-> ts.maxScrollDepth,
               activeTime |-> ts.activeTime,
               totalTime |-> ts.totalTime,
               interactions |-> ts.interactions,
               objectives |-> ts.objectives,
               quizScores |-> ts.quizScores,
               topicProgress |-> ts.topicProgress]]

\* the updateInterval callback of the earlier tracker (part_000:560-564)
reportTickV1 ==
    /\ initialized
    /\ Ran("reportTickV1", <<>>)
    /\ sent' = <<sendToParent(progressUpdateV1(trackerState))>>
    /\ UNCHANGED <<trackerState, now, initialized, host, scrollTimeout, snapshot>>

NextVersions == reportTick \/ reportTickV1

SpecVersions == InitCalc /\ [][NextVersions]_vars

(***************************************************************************)
(* The scroll debounce.  In SpecDebounce the user scrolls, clicks and      *)
(* types at most MaxLiveOps times; the timer set by the scroll listener is *)
(* the browser's: while the page lives a pending timer that is not         *)
(* cleared is run.                                                         *)
(***************************************************************************)
\* the callback of setTimeout(..., 100) in the scroll listener
\* (part_000:825-829), run by the event loop
debounceTimerFires(scrollTop, scrollHeight, innerHeight) ==
    /\ scrollTimeout
    /\ Uncounted("scrollTimeout", <<scrollTop, scrollHeight, innerHeight>>)
    /\ scrollTimeout' = FALSE
    /\ trackerState' =
           [updateScrollDepth(trackerState, scrollTop, scrollHeight, innerHeight)
               EXCEPT !.interactions = @ + 1, !.lastActivity = now]
    /\ sent' = <<>>
    /\ UNCHANGED <<now, initialized, host, snapshot>>

DebounceDue ==
    \E g \in ScrollGeometries : debounceTimerFires(g[1], g[2], g[3])

NextDebounce ==
    \/ opCount < MaxLiveOps /\ (scroll \/ click \/ keydown)
    \/ DocumentParsed
    \/ DebounceDue

SpecDebounce ==
    /\ Init
    /\ [][NextDebounce]_vars
    /\ WF_vars(DocumentParsed)
    /\ WF_vars(DebounceDue)

(***************************************************************************)
(* radar-chart.js.  The page has the canvas elements of Canvases; every    *)
(* createRadarChart call makes its own animate closure, and all closures   *)
(* share sweepAngle and animationFrame.  frameRequests is the browser's    *)
(* list of callbacks passed to requestAnimationFrame and not yet run or    *)
(* cancelled, each with its handle and the canvas its closure draws on.    *)
(* What is drawn on the canvas is not part of the state.                   *)
(***************************************************************************)
Canvases == {"radarChart", "summaryChart"}
CanvasIds == Canvases \cup {"noSuchCanvas"}

\* Math.PI * 2 in steps of 0.02: the first step count with 0.02 * n >= 2 pi
sweepTurn == 315

RanRadar(name, args) ==
    /\ opCount < MaxOps
    /\ opCount' = opCount + 1
    /\ lastOp' = [name |-> name, args |-> args]
    /\ sent' = <<>>
    /\ UNCHANGED <<trackerState, now, initialized, host, scrollTimeout,
                   snapshot, history>>

\* animate (radar-chart.js:41-65): draw, advance the sweep, request the next
\* frame and keep its handle; waiting are the requests of the other closures
animate(waiting, canvasId) ==
    /\ sweepAngle' = IF sweepAngle + 1 >= sweepTurn THEN 0 ELSE sweepAngle + 1
    /\ lastHandle' = lastHandle + 1
    /\ animationFrame' = lastHandle'
    /\ frameRequests' = waiting \cup {[handle |-> lastHandle', canvas |-> canvasId]}

\* window.createRadarChart (radar-chart.js:19-69)
createRadarChart(canvasId) ==
    /\ RanRadar("createRadarChart", <<canvasId>>)
    /\ IF canvasId \notin Canvases
       THEN UNCHANGED radarVars
       ELSE animate(frameRequests, canvasId)

\* the browser runs a requested animation frame callback
animationFrameFires(request) ==
    /\ request \in frameRequests
    /\ RanRadar("animationFrame", <<request.handle, request.canvas>>)
    /\ animate(frameRequests \ {request}, request.canvas)

\* window.stopRadarAnimation (radar-chart.js:291-296)
stopRadarAnimation ==
    /\ RanRadar("stopRadarAnimation", <<>>)
    /\ IF animationFrame # 0
       THEN /\ frameRequests' =
                  {r \in frameRequests : r.handle # animationFrame}
            /\ animationFrame' = 0
            /\ UNCHANGED <<sweepAngle, lastHandle>>
       ELSE UNCHANGED radarVars

NextRadar ==
    \/ \E canvasId \in CanvasIds : createRadarChart(canvasId)
    \/ \E request \in frameRequests : animationFrameFires(request)
    \/ stopRadarAnimation

SpecRadar == Init /\ [][NextRadar]_vars

(***************************************************************************)
(* Properties.                                                             *)
(***************************************************************************)
ProgressUpdates ==
    {i \in 1..Len(sent) : sent[i].message.type = "PROGRESS_UPDATE"}

\* C1: whatever the operations and their arguments were, calculateProgress,
\* and so the progress field of every PROGRESS_UPDATE, is an integer in 0..100.
C1_ProgressInRange ==
    /\ calculateProgress(trackerState) \in 0..100
    /\ \A i \in ProgressUpdates : sent[i].message.data.progress \in 0..100

\* C2: the objectives list holds at most one entry per canonical key, and
\* completeObjective("ohms law", 95) on a list holding "Ohm's Law" with score
\* 90 leaves that one entry, with score 95.
C2_KeysDistinct ==
    \A i, j \in 1..Len(trackerState.objectives) :
        normalize(trackerState.objectives[i].name)
            = normalize(trackerState.objectives[j].name) => i = j

C2_OhmsLawStep ==
    (/\ lastOp'.name = "completeObjective"
     /\ lastOp'.args = <<OhmsLawB, 95>>
     /\ trackerState.objectives
            = <<[name |-> OhmsLawA, completed |-> TRUE, score |-> 90]>>)
    => trackerState'.objectives
            = <<[name |-> OhmsLawA, completed |-> TRUE, score |-> 95]>>

C2_OneEntryPerCanonicalKey == []C2_KeysDistinct /\ [][C2_OhmsLawStep]_vars

C2_Witness ==
    /\ lastOp.name = "completeObjective"
    /\ lastOp.args = <<OhmsLawB, 95>>
    /\ trackerState.objectives
           = <<[name |-> OhmsLawA, completed |-> TRUE, score |-> 95]>>

\* C3: no step lowers the score of an objective entry; a score changes only
\* in completeObjective on that entry's canonical key, which sets completed
\* and stores the larger of the old and the new score.
C3_ObjectiveStep ==
    LET old == trackerState.objectives
        new == trackerState'.objectives
    IN  /\ Len(new) >= Len(old)
        /\ \A i \in 1..Len(old) :
              /\ new[i].name = old[i].name
              /\ new[i].score >= old[i].score
              /\ IF /\ lastOp'.name = "completeObjective"
                    /\ normalize(lastOp'.args[1]) = normalize(old[i].name)
                 THEN /\ new[i].completed
                      /\ new[i].score = IF old[i].score < lastOp'.args[2]
                                        THEN lastOp'.args[2] ELSE old[i].score
                 ELSE new[i].score = old[i].score

C3_ScoreNeverDecreases == [][C3_ObjectiveStep]_vars

C3_Witness ==
    /\ lastOp.name = "completeObjective"
    /\ lastOp.args[2] = 90
    /\ \E i \in 1..Len(trackerState.objectives) :
          /\ normalize(trackerState.objectives[i].name) = normalize(lastOp.args[1])
          /\ trackerState.objectives[i].score = 95

\* C4: no step lowers the stored percentage of a quiz name, and a
\* recordQuizScore whose percentage round(score / maxScore * 100) is not
\* higher than the stored one leaves the stored entry as it was.
C4_QuizStep ==
    LET old == trackerState.quizScores
        new == trackerState'.quizScores
    IN  \A n \in DOMAIN old :
           /\ n \in DOMAIN new
           /\ new[n].percentage >= old[n].percentage
           /\ (/\ lastOp'.name = "recordQuizScore"
               /\ lastOp'.args[1] = n
               /\ (2 * 100 * lastOp'.args[2] + lastOp'.args[3])
                      \div (2 * lastOp'.args[3]) <= old[n].percentage)
              => new[n] = old[n]

C4_QuizPercentageNeverDecreases == [][C4_QuizStep]_vars

C4_Witness ==
    /\ lastOp.name = "recordQuizScore"
    /\ lastOp.args = <<QuizA, 40, 100, 0>>
    /\ QuizA \in DOMAIN trackerState.quizScores
    /\ trackerState.quizScores[QuizA].percentage = 60

\* C5: recordQuestionAnswer with a questionId that is in the ledger leaves
\* the ledger as it was, whatever isCorrect is.
C5_RepeatStep ==
    (/\ lastOp'.name = "recordQuestionAnswer"
     /\ lastOp'.args[1] \in DOMAIN trackerState.questionsAnswered.questions)
    => trackerState'.questionsAnswered = trackerState.questionsAnswered

C5_RepeatedAnswerIsNoOp == [][C5_RepeatStep]_vars

C5_Witness ==
    /\ lastOp.name = "recordQuestionAnswer"
    /\ lastOp.args[1] \in DOMAIN trackerState.questionsAnswered.questions
    /\ trackerState.questionsAnswered.questions[lastOp.args[1]].correct
          # lastOp.args[2]

\* C6: total is the number of questionIds in the per-question map, correct
\* the number of those marked correct, and 0 <= correct <= total.
C6_LedgerConsistent ==
    LET ledger == trackerState.questionsAnswered
    IN  /\ ledger.total = Cardinality(DOMAIN ledger.questions)
        /\ ledger.correct =
              Cardinality({id \in DOMAIN ledger.questions : ledger.questions[id].correct})
        /\ 0 <= ledger.correct
        /\ ledger.correct <= ledger.total

C6_Witness ==
    /\ trackerState.questionsAnswered.total = 2
    /\ trackerState.questionsAnswered.correct = 1

\* C7: what getState() returned is not the live session: no write the lesson
\* script makes to it changes trackerState, nor then a later calculateProgress.
CallerWrites ==
    {"state.activeTime=", "state.objectives.push", "delete state.quizScores[]",
     "state.topicProgress[]=", "state.questionsAnswered.correct="}

C7_CallerWriteStep ==
    lastOp'.name \in CallerWrites
    => /\ trackerState' = trackerState
       /\ calculateProgress(trackerState') = calculateProgress(trackerState)

C7_SnapshotIsNotLive == [][C7_CallerWriteStep]_vars

\* C8: once setLessonId(id) was called, lessonId is the id of the last such
\* call, whether init ran before or after it, and every message sent since
\* that has a lessonId carries it.
C8_LessonIdStaysSet ==
    history.lessonIdSet # <<>>
    => /\ trackerState.lessonId = history.lessonIdSet[1]
       /\ \A i \in 1..Len(sent) :
             sent[i].message.type # "FULLSCREEN_CHANGED"
             => sent[i].message.lessonId = history.lessonIdSet[1]

\* C9: calculateProgress uses the weights 25/20/10/30/15 exactly in the
\* states with a quiz score or an answered question, and 40/30/15/15 in all
\* others.  Stated for activeTime up to minActiveTime, where the time
\* component is below every cap.
C9_QuizFraction(ts) ==
    IF DOMAIN ts.quizScores # {}
    THEN LET names == SetToSeq(DOMAIN ts.quizScores)
         IN  Frac(SumSeq([i \in 1..Len(names) |-> ts.quizScores[names[i]].percentage]),
                  100 * Len(names))
    ELSE IF ts.questionsAnswered.total > 0
    THEN Frac(ts.questionsAnswered.correct, ts.questionsAnswered.total)
    ELSE Num(0)

C9_ObjectivesFraction(ts) ==
    IF ts.objectives = <<>> THEN Num(1)
    ELSE Frac(Cardinality({i \in 1..Len(ts.objectives) : ts.objectives[i].completed}),
              Len(ts.objectives))

C9_Weighted(ts, wTime, wScroll, wInteraction, perInteraction, wQuiz, wObjectives) ==
    LET sum ==
            Plus(Plus(Plus(Plus(Frac(ts.activeTime * wTime, minActiveTime),
                                Frac(ts.maxScrollDepth * wScroll, 100)),
                           MathMin(Num(wInteraction),
                                   Times(Num(ts.interactions), perInteraction))),
                      Times(Num(wQuiz), C9_QuizFraction(ts))),
                 Times(Num(wObjectives), C9_ObjectivesFraction(ts)))
        rounded == MathRound(sum)
    IN  IF rounded > 100 THEN 100 ELSE rounded

C9_QuizAware(ts) == C9_Weighted(ts, 25, 20, 10, <<1, 2>>, 30, 15)

C9_Standard(ts) == C9_Weighted(ts, 40, 30, 15, <<1, 1>>, 0, 15)

C9_HasQuizData(ts) ==
    DOMAIN ts.quizScores # {} \/ ts.questionsAnswered.total > 0

C9_WeightsFollowQuizData ==
    trackerState.activeTime <= minActiveTime
    => calculateProgress(trackerState) =
          IF C9_HasQuizData(trackerState)
          THEN C9_QuizAware(trackerState)
          ELSE C9_Standard(trackerState)

C9_Witness ==
    /\ trackerState.quizScores = <<>>
    /\ trackerState.questionsAnswered.total > 0
    /\ C9_QuizAware(trackerState) # C9_Standard(trackerState)
    /\ \E i \in ProgressUpdates :
          sent[i].message.data.progress = C9_QuizAware(trackerState)

\* C10: once recordQuizScore has been called, calculateProgress takes the
\* quiz-aware branch in every later state.
C10_QuizAwareOnceRecorded ==
    history.quizRecorded => quizAwareMode(trackerState)

\* C11 (as claimed): once calculateProgress takes the quiz-aware branch, it
\* takes it in every later state, whether a quiz score or a question answer
\* triggered it and whatever is reset afterwards.
C11_ModeNeverReverts ==
    [][quizAwareMode(trackerState) => quizAwareMode(trackerState')]_vars

C11_QuizStoredStep ==
    DOMAIN trackerState.quizScores # {}
    => /\ DOMAIN trackerState'.quizScores # {}
       /\ quizAwareMode(trackerState')

C11_QuestionsOnlyResetStep ==
    /\ lastOp'.name = "resetQuestions"
    /\ DOMAIN trackerState.quizScores = {}
    => ~quizAwareMode(trackerState')

\* C11 (amended): once quizScores holds an entry, the entry stays and the
\* quiz-aware branch is taken in every later state, resetQuestions included;
\* a resetQuestions call made while quizScores is empty leaves the session in
\* standard mode.
C11_QuizScoreKeepsMode ==
    [][C11_QuizStoredStep /\ C11_QuestionsOnlyResetStep]_vars

C11_Witness ==
    /\ lastOp.name = "resetQuestions"
    /\ DOMAIN trackerState.quizScores # {}
    /\ trackerState.questionsAnswered.total = 0
    /\ quizAwareMode(trackerState)

\* C12: for every activeTime the time component is min(weight, activeTime /
\* 30 * weight), never more than its weight (25 quiz-aware, 40 standard); in
\* standard mode with activeTime 75, no scroll, no interactions and no
\* objectives, progress is 40 + 15 = 55.
C12_TimeComponentCapped ==
    \A i \in ProgressUpdates :
        /\ \A weight \in {25, 40} :
              timeProgress(trackerState, weight) =
                 MathMin(Num(weight),
                         Frac(trackerState.activeTime * weight, minActiveTime))
        /\ /\ ~quizAwareMode(trackerState)
           /\ trackerState.activeTime = 75
           /\ trackerState.maxScrollDepth = 0
           /\ trackerState.interactions = 0
           /\ trackerState.objectives = <<>>
           => sent[i].message.data.progress = 55

\* the terms of progress other than the objectives term
C13_OtherComponents(ts) ==
    IF C9_HasQuizData(ts)
    THEN Plus(Plus(Plus(timeProgress(ts, 25), Frac(ts.maxScrollDepth * 20, 100)),
                   MathMin(Num(10), Frac(ts.interactions, 2))),
              Times(Num(30), C9_QuizFraction(ts)))
    ELSE Plus(Plus(timeProgress(ts, 40), Frac(ts.maxScrollDepth * 30, 100)),
              MathMin(Num(15), Num(ts.interactions)))

C13_Fresh(ts) ==
    /\ ts.activeTime = 0
    /\ ts.maxScrollDepth = 0
    /\ ts.interactions = 0
    /\ ~C9_HasQuizData(ts)

\* C13: whenever the objectives list is empty, the objectives term is the
\* full 15 points, in standard and in quiz-aware mode alike: the reported
\* progress is the other terms plus 15 (rounded, at most 100), and a session
\* with no activity at all reports 15.
C13_NoObjectivesFullCredit ==
    trackerState.objectives = <<>>
    => /\ objectivesComponent(trackerState) = Num(15)
       /\ \A i \in ProgressUpdates :
             LET rounded ==
                     MathRound(Plus(C13_OtherComponents(trackerState), Num(15)))
             IN  /\ sent[i].message.data.progress =
                       IF rounded > 100 THEN 100 ELSE rounded
                 /\ C13_Fresh(trackerState)
                    => sent[i].message.data.progress = 15

C13_Witness ==
    /\ trackerState.objectives = <<>>
    /\ trackerState.quizScores # <<>>
    /\ trackerState.activeTime = 0
    /\ trackerState.maxScrollDepth = 0
    /\ trackerState.interactions = 0
    /\ \E i \in ProgressUpdates : sent[i].message.data.progress = 18 + 15

\* C14: in standard mode, with activeTime of 30 or more, the whole page
\* scrolled (maxScrollDepth 100), 15 or more interactions and no objectives,
\* the reported progress is exactly 100.
C14_FullStandardProgress ==
    \A i \in ProgressUpdates :
        /\ ~C9_HasQuizData(trackerState)
        /\ trackerState.activeTime >= 30
        /\ trackerState.maxScrollDepth = 100
        /\ trackerState.interactions >= 15
        /\ trackerState.objectives = <<>>
        => sent[i].message.data.progress = 100

C14_Witness ==
    /\ ~C9_HasQuizData(trackerState)
    /\ trackerState.activeTime = 30
    /\ trackerState.maxScrollDepth = 100
    /\ trackerState.interactions = 20
    /\ trackerState.objectives = <<>>
    /\ \E i \in ProgressUpdates : sent[i].message.data.progress = 100

C15_TopicsInRange ==
    \A t \in DOMAIN trackerState.topicProgress :
        trackerState.topicProgress[t] \in 0..100

C15_UpdateStep ==
    lastOp'.name = "updateTopicProgress"
    => LET topicName == lastOp'.args[1]
           percentage == lastOp'.args[2]
           stored == IF percentage < 0 THEN 0
                     ELSE IF percentage > 100 THEN 100 ELSE percentage
       IN  /\ DOMAIN trackerState'.topicProgress =
                 DOMAIN trackerState.topicProgress \cup {topicName}
           /\ trackerState'.topicProgress[topicName] = stored
           /\ \A t \in DOMAIN trackerState.topicProgress \ {topicName} :
                 trackerState'.topicProgress[t] = trackerState.topicProgress[t]
           /\ lastOp = lastOp' => trackerState' = trackerState /\ sent' = sent

\* C15: updateTopicProgress(topic, p) stores min(100, max(0, p)) for the
\* topic whatever was stored before and leaves the other topics alone; every
\* stored topic score is in 0..100; the same call made a second time changes
\* neither the session nor the report.
C15_TopicLastWriteClamped ==
    []C15_TopicsInRange /\ [][C15_UpdateStep]_vars

C15_Witness ==
    /\ lastOp.name = "updateTopicProgress"
    /\ lastOp.args[2] = -20
    /\ opCount >= 2
    /\ trackerState.topicProgress[lastOp.args[1]] = 0

\* C16: quiz names that differ only in capitalization, punctuation or
\* whitespace (the same key after normalize) name one quiz entry:
\* quizScores never holds two entries whose names normalize to the same key.
C16_OneQuizPerCanonicalKey ==
    \A a, b \in DOMAIN trackerState.quizScores :
        normalize(a) = normalize(b) => a = b

\* the operations of window.CAETTracker that change trackerState
C17_Mutating ==
    {"completeObjective", "addObjective", "recordQuizScore", "resetQuestions",
     "updateTopicProgress", "setLessonId"}

C17_ReportStep ==
    \/ lastOp'.name \in C17_Mutating
    \/ /\ lastOp'.name = "recordQuestionAnswer"
       /\ trackerState'.questionsAnswered # trackerState.questionsAnswered
    => /\ Len(sent') = 1
       /\ sent'[1].message.type = "PROGRESS_UPDATE"
       /\ sent'[1].message = progressUpdate(trackerState')

\* C17: every operation of the public API that changes the session
\* (completeObjective, addObjective, recordQuizScore, a recordQuestionAnswer
\* that inserts, resetQuestions, updateTopicProgress, setLessonId) sends a
\* PROGRESS_UPDATE in the same call, computed after the change.
C17_EveryMutationReports == [][C17_ReportStep]_vars

\* the last handler run sent a PROGRESS_UPDATE computed from the session as
\* it is now
C18_Reported ==
    \E i \in ProgressUpdates : sent[i].message = progressUpdate(trackerState)

\* C18: with the 5-second reporting timer firing fairly, whenever the
\* session holds a change that no PROGRESS_UPDATE has carried (a mutation
\* made without a report, or made since the last one), a PROGRESS_UPDATE
\* computed from a state at least as recent is eventually sent.
C18_EventuallyReported == ~C18_Reported ~> C18_Reported

C18_Witness ==
    /\ lastOp.name = "reportTick"
    /\ history.lessonIdSet # <<>>
    /\ \E k \in 1..Len(trackerState.objectives) :
          ~trackerState.objectives[k].completed
    /\ \E i \in ProgressUpdates :
          /\ sent[i].message.lessonId = history.lessonIdSet[1]
          /\ sent[i].message.data.objectives = trackerState.objectives

\* C19: the reporting timer can be stopped: once the page is left (the
\* beforeunload listener has run), the updateInterval callback cannot fire
\* any more, so no further timer-driven PROGRESS_UPDATE is sent.
C19_TimerStoppedAtUnload ==
    lastOp.name = "beforeunload" => ~ENABLED reportTimerFires

C20_MarkCompletedStep ==
    lastOp'.name = "markCompleted"
    => /\ trackerState' = trackerState
       /\ Len(sent') = 1
       /\ sent'[1].message.type = "LESSON_COMPLETED"
       /\ sent'[1].message.lessonId = trackerState.lessonId
       /\ sent'[1].message.data.activeTime = trackerState.activeTime
       /\ sent'[1].message.data.scrollDepth = trackerState.maxScrollDepth
       /\ sent'[1].message.data.objectives = trackerState.objectives
       /\ sent'[1].message.data.quizScores = trackerState.quizScores
       /\ sent'[1].message.data.topicProgress = trackerState.topicProgress
       /\ sent'[1].message.data.questionsAnswered = trackerState.questionsAnswered

\* C20: markCompleted can be called in every state, whatever
\* calculateProgress gives; it leaves every field of the session as it was
\* and sends exactly one LESSON_COMPLETED message with the current lessonId
\* and the current activeTime, scroll depth, objectives, quiz scores, topic
\* progress and question ledger.
C20_MarkCompletedFrame ==
    /\ [](opCount < MaxOps => ENABLED markCompleted)
    /\ [][C20_MarkCompletedStep]_vars

C20_Witness ==
    /\ lastOp.name = "markCompleted"
    /\ calculateProgress(trackerState) < 100
    /\ trackerState.objectives # <<>>
    /\ Len(sent) = 1
    /\ sent[1].message.type = "LESSON_COMPLETED"
    /\ sent[1].message.data.objectives = trackerState.objectives

C21_DetectStep ==
    lastOp'.name = "init"
    => LET metaLesson == lastOp'.args[1]
           urlLesson == lastOp'.args[2]
           bodyLesson == lastOp'.args[3]
           noMeta == metaLesson = Null
           noUrl == urlLesson = Null
           noBody == bodyLesson = Null \/ bodyLesson = <<>>
           id == trackerState'.lessonId
       IN  /\ ~noMeta => id = metaLesson
           /\ noMeta /\ ~noUrl => id = urlLesson
           /\ noMeta /\ noUrl /\ ~noBody => id = bodyLesson
           /\ noMeta /\ noUrl /\ noBody => id = unknown
           /\ Len(sent') = 1
           /\ sent'[1].message.type = "TRACKER_READY"
           /\ sent'[1].message.lessonId = id

\* C21: at startup the lesson id is the content of the lesson-id meta tag
\* when the page has one, else the lesson URL parameter when the URL has
\* one, else the body's data-lesson-id when it is set, else "unknown";
\* TRACKER_READY carries that id.
C21_LessonIdPriority == [][C21_DetectStep]_vars

C21_Witness ==
    /\ lastOp.name = "init"
    /\ lastOp.args = <<Null, <<"2">>, <<"3">>>>
    /\ trackerState.lessonId = <<"2">>

C22_ResetStep ==
    lastOp'.name = "resetQuestions"
    => trackerState' =
          [trackerState EXCEPT !.questionsAnswered =
              [total |-> 0, correct |-> 0, questions |-> <<>>]]

C22_AnswerAgainStep ==
    /\ lastOp'.name = "recordQuestionAnswer"
    /\ lastOp'.args[1] \in history.cleared
    /\ lastOp'.args[1] \notin DOMAIN trackerState.questionsAnswered.questions
    => LET questionId == lastOp'.args[1]
           isCorrect == lastOp'.args[2]
           before == trackerState.questionsAnswered
           after == trackerState'.questionsAnswered
       IN  /\ questionId \in DOMAIN after.questions
           /\ after.questions[questionId].correct = isCorrect
           /\ after.total = before.total + 1
           /\ after.correct = before.correct + (IF isCorrect THEN 1 ELSE 0)

\* C22: resetQuestions leaves the ledger at total 0, correct 0 and an empty
\* question map and every other field of the session as it was; a question
\* answered before the reset and answered again after it is recorded and
\* counted again.
C22_ResetClearsLedger == [][C22_ResetStep /\ C22_AnswerAgainStep]_vars

C22_Witness ==
    /\ lastOp.name = "recordQuestionAnswer"
    /\ lastOp.args[1] \in history.cleared
    /\ lastOp.args[1] \in DOMAIN trackerState.questionsAnswered.questions
    /\ trackerState.questionsAnswered.total = 1

C23_ActiveTimeStep ==
    LET engaged == /\ trackerState.isActive
                   /\ now' - trackerState.lastActivity < 60
    IN  trackerState'.activeTime =
           IF lastOp'.name = "timeTick" /\ engaged
           THEN trackerState.activeTime + 1
           ELSE trackerState.activeTime

\* C23: a run of the one-second timer adds exactly 1 to activeTime when the
\* page is focused (isActive) and less than 60 seconds have passed since
\* lastActivity, and leaves it alone otherwise; no other handler changes
\* activeTime.
C23_ActiveTimeCountsEngagedTicks == [][C23_ActiveTimeStep]_vars

C23_Witness ==
    /\ lastOp.name = "timeTick"
    /\ trackerState.isActive
    /\ now - trackerState.lastActivity >= 60
    /\ trackerState.activeTime = 1
    /\ trackerState.totalTime > 60

C24_DepthsInRange ==
    /\ trackerState.scrollDepth \in 0..100
    /\ trackerState.maxScrollDepth \in 0..100

C24_MaxStep ==
    trackerState'.maxScrollDepth =
       IF lastOp'.name = "scrollTimeout"
          /\ trackerState'.scrollDepth > trackerState.maxScrollDepth
       THEN trackerState'.scrollDepth
       ELSE trackerState.maxScrollDepth

\* C24: scrollDepth and maxScrollDepth are integers in 0..100 in every
\* state; maxScrollDepth never decreases, and after a scroll update it is
\* the larger of its previous value and the new scrollDepth.
C24_ScrollDepthBounded == []C24_DepthsInRange /\ [][C24_MaxStep]_vars

\* what the handler that just ran was to change in the session
C25_StateChangeDone ==
    LET args == lastOp'.args
        ts == trackerState'
    IN  /\ lastOp'.name = "completeObjective"
           => \E k \in 1..Len(ts.objectives) :
                 /\ normalize(ts.objectives[k].name) = normalize(args[1])
                 /\ ts.objectives[k].completed
        /\ lastOp'.name = "recordQuizScore" /\ args[1] \notin ObjectPrototypeKeys
           => args[1] \in DOMAIN ts.quizScores
        /\ lastOp'.name = "recordQuestionAnswer"
              /\ args[1] \notin ObjectPrototypeKeys
           => args[1] \in DOMAIN ts.questionsAnswered.questions
        /\ lastOp'.name = "updateTopicProgress"
           => args[1] \in DOMAIN ts.topicProgress
        /\ lastOp'.name = "resetQuestions" => ts.questionsAnswered.total = 0
        /\ lastOp'.name = "init" => initialized' /\ ts.lessonId # Null
        /\ lastOp'.name = "fullscreenchange" => ts.isFullscreen = args[1]

C25_NoParentStep ==
    host = "none"
    => /\ \A i \in 1..Len(sent') : sent'[i].channel = "console.log"
       /\ lastOp'.name \in {"completeObjective", "recordQuizScore",
                            "updateTopicProgress", "resetQuestions",
                            "markCompleted", "init", "fullscreenchange",
                            "reportTick", "beforeunload"}
          => Len(sent') = 1
       /\ C25_StateChangeDone

\* C25: on a page with neither parent frame nor opener every message is
\* only logged: nothing is posted, the handler that sent it runs to its end
\* and its change to the session is made.
C25_NoParentIsLocalLog == [][C25_NoParentStep]_vars

C25_Witness ==
    /\ host = "none"
    /\ lastOp.name = "completeObjective"
    /\ trackerState.objectives # <<>>
    /\ Len(sent) = 1
    /\ sent[1].channel = "console.log"
    /\ sent[1].message.type = "PROGRESS_UPDATE"

\* mean of the stored quiz percentages
C26_MeanPercentage(ts) ==
    LET names == SetToSeq(DOMAIN ts.quizScores)
    IN  Frac(SumSeq([i \in 1..Len(names) |-> ts.quizScores[names[i]].percentage]),
             Len(names))

\* the component as the claim gives it: 30 * mean / 100 with a stored quiz,
\* 30 * correct / total without
C26_QuizTerm(ts) ==
    IF DOMAIN ts.quizScores # {}
    THEN Over(Times(Num(30), C26_MeanPercentage(ts)), 100)
    ELSE Frac(30 * ts.questionsAnswered.correct, ts.questionsAnswered.total)

\* quiz-aware progress with that component in place of the computed one
C26_Progress(ts) ==
    LET scrollProgress == Times(Frac(ts.maxScrollDepth, 100), Num(20))
        interactionProgress == MathMin(Num(10), Frac(ts.interactions, 2))
        rounded == MathRound(Plus(Plus(Plus(Plus(timeProgress(ts, 25),
                                                 scrollProgress),
                                            interactionProgress),
                                       C26_QuizTerm(ts)),
                                  objectivesComponent(ts)))
    IN  IF rounded > 100 THEN 100 ELSE rounded

\* C26: in quiz-aware mode the quiz/questions component is 30 times the mean
\* of the stored quiz percentages over 100 when a quiz score is stored,
\* whatever the question ledger holds, and 30 * correct / total of the ledger
\* when none is; the progress of every PROGRESS_UPDATE is built on it.
C26_QuizComponent ==
    quizAwareMode(trackerState)
    => /\ quizComponent(trackerState) = C26_QuizTerm(trackerState)
       /\ \A i \in ProgressUpdates :
             sent[i].message.data.progress = C26_Progress(trackerState)

C26_Witness ==
    /\ DOMAIN trackerState.quizScores # {}
    /\ \A n \in DOMAIN trackerState.quizScores :
          trackerState.quizScores[n].percentage \in 1..100
    /\ trackerState.questionsAnswered.total > 0
    /\ Frac(100 * trackerState.questionsAnswered.correct,
            trackerState.questionsAnswered.total)
       # C26_MeanPercentage(trackerState)
    /\ \E i \in ProgressUpdates :
          sent[i].message.data.progress = C26_Progress(trackerState)

\* the interaction component by its saturation points: one point per
\* interaction up to 15 interactions in standard mode, half a point per
\* interaction up to 20 interactions in quiz-aware mode
C27_InteractionTerm(ts) ==
    IF quizAwareMode(ts)
    THEN IF ts.interactions >= 20 THEN Num(10) ELSE Frac(ts.interactions, 2)
    ELSE IF ts.interactions >= 15 THEN Num(15) ELSE Num(ts.interactions)

\* the two formulas of the claim
C27_MinFormula(ts) ==
    IF quizAwareMode(ts)
    THEN MathMin(Num(10), Times(Num(ts.interactions), <<1, 2>>))
    ELSE MathMin(Num(15), Num(ts.interactions))

\* progress with that interaction component
C27_Progress(ts) ==
    LET weights == IF quizAwareMode(ts) THEN <<25, 20>> ELSE <<40, 30>>
        rest == Plus(Plus(Plus(timeProgress(ts, weights[1]),
                               Times(Frac(ts.maxScrollDepth, 100), Num(weights[2]))),
                          IF quizAwareMode(ts) THEN quizComponent(ts) ELSE Num(0)),
                     objectivesComponent(ts))
        rounded == MathRound(Plus(rest, C27_InteractionTerm(ts)))
    IN  IF rounded > 100 THEN 100 ELSE rounded

\* C27: the interaction component is min(15, interactions) in standard mode
\* and min(10, interactions / 2) in quiz-aware mode: it grows up to 15
\* interactions (standard) and 20 interactions (quiz-aware) and stays at 15
\* and 10 from there on; the reported progress carries exactly that term.
C27_InteractionComponent ==
    /\ C27_MinFormula(trackerState) = C27_InteractionTerm(trackerState)
    /\ \A i \in ProgressUpdates :
          sent[i].message.data.progress = C27_Progress(trackerState)

C27_Witness ==
    /\ quizAwareMode(trackerState)
    /\ trackerState.interactions > 20
    /\ \E i \in ProgressUpdates :
          /\ sent[i].message.data.progress = C27_Progress(trackerState)
          /\ sent[i].message.data.progress < 100

C28_Counted == {"click", "keydown", "scrollTimeout"}

C28_Step ==
    /\ trackerState'.interactions >= trackerState.interactions
    /\ trackerState'.interactions =
          IF lastOp'.name \in C28_Counted
          THEN trackerState.interactions + 1
          ELSE trackerState.interactions
    /\ lastOp'.name = "scroll"
       => /\ scrollTimeout'
          /\ trackerState' = trackerState
    /\ lastOp'.name = "scrollTimeout"
       => /\ scrollTimeout
          /\ ~scrollTimeout'
          /\ trackerState'.scrollDepth =
                updateScrollDepth(trackerState, lastOp'.args[1], lastOp'.args[2],
                                  lastOp'.args[3]).scrollDepth
    /\ lastOp'.name # "scrollTimeout"
       => trackerState'.scrollDepth = trackerState.scrollDepth

\* C28: the interaction counter never decreases; a click, a keydown and a run
\* of the scroll timer each add exactly 1 and nothing else changes it.  A
\* scroll event only (re)arms the one timer, so a burst of scroll events is
\* followed by one run of the timer, after the last event of the burst, with
\* one increment and one scroll-depth update, and a pending timer does run.
C28_DebouncedCount ==
    /\ [][C28_Step]_vars
    /\ scrollTimeout ~> ~scrollTimeout

C28_Witness ==
    /\ lastOp.name = "scrollTimeout"
    /\ opCount = 2
    /\ trackerState.interactions = 1
    /\ trackerState.scrollDepth > 0
    /\ ~scrollTimeout

\* C29: every PROGRESS_UPDATE is a snapshot of the session as the handler
\* that sends it leaves it: progress is calculateProgress of that state,
\* scrollDepth is maxScrollDepth, and activeTime, totalTime, interactions,
\* objectives, quizScores, topicProgress and questionsAnswered are the
\* session's values.
C29_ConsistentSnapshot ==
    \A i \in ProgressUpdates :
        LET data == sent[i].message.data
        IN  /\ data.progress = calculateProgress(trackerState)
            /\ data.scrollDepth = trackerState.maxScrollDepth
            /\ data.activeTime = trackerState.activeTime
            /\ data.totalTime = trackerState.totalTime
            /\ data.interactions = trackerState.interactions
            /\ data.objectives = trackerState.objectives
            /\ data.quizScores = trackerState.quizScores
            /\ data.topicProgress = trackerState.topicProgress
            /\ data.questionsAnswered = trackerState.questionsAnswered

C29_Witness ==
    /\ lastOp.name = "completeObjective"
    /\ Len(trackerState.objectives) = 2
    /\ \E k \in 1..2 : ~trackerState.objectives[k].completed
    /\ \E i \in ProgressUpdates :
          /\ sent[i].message.data.objectives = trackerState.objectives
          /\ sent[i].message.data.progress = calculateProgress(trackerState)

C30_HasKey(objectives, objectiveName) ==
    \E k \in 1..Len(objectives) :
        normalize(objectives[k].name) = normalize(objectiveName)

C30_Completed(objectives) ==
    Cardinality({k \in 1..Len(objectives) : objectives[k].completed})

C30_Step ==
    LET old == trackerState.objectives
        new == trackerState'.objectives
    IN  /\ lastOp'.name = "addObjective"
           => /\ C30_HasKey(old, lastOp'.args[1])
                 => trackerState' = trackerState /\ sent' = <<>>
              /\ ~C30_HasKey(old, lastOp'.args[1])
                 => /\ Len(new) = Len(old) + 1
                    /\ ~new[Len(new)].completed
              /\ addObjectiveUpdate(new, lastOp'.args[1]) = new
        /\ Len(new) >= Len(old)
        /\ \A k \in 1..Len(old) :
              /\ new[k].name = old[k].name
              /\ old[k].completed => new[k].completed
        /\ C30_Completed(new) >= C30_Completed(old)

\* C30: addObjective on a name whose canonical key is already in the list,
\* completed or not, changes nothing, and a second call with the same name
\* changes nothing more; whatever runs, every entry stays in place, a
\* completed objective stays completed and the number of completed
\* objectives never decreases.
C30_AddObjectiveNeverWeakens == [][C30_Step]_vars

C30_Witness ==
    /\ lastOp.name = "addObjective"
    /\ Len(trackerState.objectives) = 1
    /\ trackerState.objectives[1].completed
    /\ trackerState.objectives[1].name # lastOp.args[1]
    /\ normalize(trackerState.objectives[1].name) = normalize(lastOp.args[1])

\* C31: nothing is sent before the lesson identifier is resolved: every
\* PROGRESS_UPDATE and LESSON_COMPLETED comes after init has sent
\* TRACKER_READY, and no message carries the lessonId null, also when the
\* lesson script calls the API before DOMContentLoaded.
C31_NoMessageBeforeReady ==
    \A i \in 1..Len(sent) :
        LET message == sent[i].message
        IN  /\ message.type \in {"PROGRESS_UPDATE", "LESSON_COMPLETED"}
               => initialized
            /\ "lessonId" \in DOMAIN message => message.lessonId # Null

\* after a run of the timer totalTime is the number of seconds since
\* startTime and activeTime is not above it
C32_AfterTick ==
    lastOp.name = "timeTick"
    => /\ trackerState.totalTime = now - trackerState.startTime
       /\ trackerState.activeTime <= trackerState.totalTime

\* activeTime grows by at most one per run of the timer and not otherwise
C32_TickStep ==
    trackerState'.activeTime - trackerState.activeTime
       <= IF lastOp'.name = "timeTick" THEN 1 ELSE 0

\* C32: after every one-second tick activeTime <= totalTime, with totalTime
\* the whole seconds elapsed since startTime, and activeTime is never more
\* than the number of ticks that have fired.
C32_ActiveWithinTotal ==
    /\ []C32_AfterTick
    /\ [][C32_TickStep]_vars

C32_Witness ==
    /\ lastOp.name = "timeTick"
    /\ trackerState.activeTime = 2
    /\ trackerState.totalTime = 2

C33_NoQuizData(ts) ==
    DOMAIN ts.quizScores = {} /\ ts.questionsAnswered.total = 0

\* C33: in a state with no quiz score and no answered question the
\* quiz-aware tracker reports the progress the earlier tracker's
\* calculateProgress gives for the same activeTime, maxScrollDepth,
\* interactions and objectives.
C33_VersionsAgree ==
    C33_NoQuizData(trackerState)
    => \A i \in ProgressUpdates :
          /\ sent[i].message.data.progress = calculateProgressV1(trackerState)
          /\ sent[i].message.data.progress = calculateProgress(trackerState)

C33_Witness ==
    /\ C33_NoQuizData(trackerState)
    /\ trackerState.activeTime = 15
    /\ trackerState.interactions > 15
    /\ \E k \in 1..Len(trackerState.objectives) :
          ~trackerState.objectives[k].completed
    /\ lastOp.name = "reportTickV1"
    /\ \E i \in ProgressUpdates :
          /\ sent[i].message.data.progress = calculateProgress(trackerState)
          /\ sent[i].message.data.progress \in 1..99

\* C34: once stopRadarAnimation has run no animation frame is left
\* scheduled for any chart, however many createRadarChart calls came before
\* it, a second call on the same canvas included.
C34_StopStopsEveryChart ==
    lastOp.name = "stopRadarAnimation" => frameRequests = {}

====
